---- MODULE Spec2Model ----
(***************************************************************************)
(* Model of src/lib.rs: the Scanner of rust_tuple_scanner.                 *)
(*                                                                         *)
(* A Scanner owns a source text (a Rust String, i.e. valid UTF-8 bytes)    *)
(* and the table line_offsets built by Scanner::new.  Its methods          *)
(* get_offset, is_violation, has_comma_in_span and check_nodes only read   *)
(* that state.  Byte indices are 0-based as in the source; At(b, i) reads  *)
(* byte i of a byte sequence.                                              *)
(***************************************************************************)
EXTENDS Integers, Sequences, FiniteSets

VARIABLES source, line_offsets, op, outcome, lineno, col, offset,
          start, end, is_call_arg, is_comp_or_assign, verdict,
          pc, ids, flagged, violations

vars == <<source, line_offsets, op, outcome, lineno, col, offset,
          start, end, is_call_arg, is_comp_or_assign, verdict,
          pc, ids, flagged, violations>>

(* ---------------------------- bounds ---------------------------------- *)

\* longest text, in characters, of the scanning specification
MaxLen == 5
\* longest text, in characters, of the position-index specification
MaxIndexLen == 4
\* longest text, in characters, of the batch specification
MaxBatchLen == 3
\* most nodes in one check_nodes call
MaxNodes == 3

(* ---------------------------- bytes ----------------------------------- *)

\* b'(' and b')' of lines 63 and 76, ',' of line 85, '\n' of line 26
LParen == 40
RParen == 41
Comma == 44
LF == 10

\* the value usize wraps to on 0 - 1; stands for 2^64 - 1, which is past
\* the integers TLC has: every use compares it with a Vec length
UsizeMax == 2147483647

At(bytes, i) == bytes[i + 1]

\* String's UTF-8 encoding of one code point below U+0800
Utf8(cp) ==
  IF cp < 128 THEN <<cp>> ELSE <<192 + (cp \div 64), 128 + (cp % 64)>>

RECURSIVE Encode(_)
Encode(chars) ==
  IF chars = <<>> THEN <<>> ELSE Utf8(Head(chars)) \o Encode(Tail(chars))

\* every text of at most n characters over an alphabet, as UTF-8 bytes
Texts(alphabet, n) ==
  { Encode(t) : t \in UNION { [1..k -> alphabet] : k \in 0..n } }

(* ---------------------------- Scanner::new ---------------------------- *)

\* str::split in place of split_inclusive: the terminator is not counted
RECURSIVE SplitExclusive(_, _)
SplitExclusive(bytes, cur) ==
  IF bytes = <<>> THEN (IF cur = 0 THEN <<>> ELSE <<cur>>)
  ELSE IF Head(bytes) = LF
       THEN <<cur>> \o SplitExclusive(Tail(bytes), 0)
       ELSE SplitExclusive(Tail(bytes), cur + 1)

\* str::split_inclusive('\n'): the lengths of the segments, each ending
\* with its terminator; no segment after a final terminator
RECURSIVE SplitInclusive(_, _)
SplitInclusive(bytes, cur) ==
  IF bytes = <<>> THEN (IF cur = 0 THEN <<>> ELSE <<cur>>)
  ELSE IF Head(bytes) = LF
       THEN <<cur + 1>> \o SplitInclusive(Tail(bytes), 0)
       ELSE SplitInclusive(Tail(bytes), cur + 1)

\* the for loop of new: push the running offset after each segment
RECURSIVE PushOffsets(_, _, _)
PushOffsets(table, running, lens) ==
  IF lens = <<>> THEN table
  ELSE PushOffsets(Append(table, running + Head(lens)),
                   running + Head(lens), Tail(lens))

new(text) == PushOffsets(<<0>>, 0, SplitInclusive(text, 0))

(* ---------------------------- get_offset ------------------------------ *)

\* lineno - 1 on usize: a panic in a build with overflow checks, a wrap
\* to usize::MAX in a build without
get_offset(table, line, column, overflow_checks) ==
  LET underflow == line = 0
      idx == IF underflow THEN UsizeMax ELSE line - 1
      base == IF idx < Len(table) THEN table[idx + 1] ELSE 0
  IN  [panic |-> underflow /\ overflow_checks, value |-> base + column]

(* ---------------------------- is_violation ---------------------------- *)

\* char::is_whitespace of (byte as char), i.e. of U+0000..U+00FF:
\* White_Space is U+0009..U+000D, U+0020, U+0085 and U+00A0
IsWhitespace(b) == b \in {9, 10, 11, 12, 13, 32, 133, 160}

\* while left >= 0 && is_whitespace(bytes[left]) { left -= 1 }
\* (callers pass left < Len(bytes))
RECURSIVE ScanLeft(_, _)
ScanLeft(bytes, left) ==
  IF left >= 0 /\ IsWhitespace(At(bytes, left))
  THEN ScanLeft(bytes, left - 1) ELSE left

\* while right < bytes.len() && is_whitespace(bytes[right]) { right += 1 }
RECURSIVE ScanRight(_, _)
ScanRight(bytes, right) ==
  IF right < Len(bytes) /\ IsWhitespace(At(bytes, right))
  THEN ScanRight(bytes, right + 1) ELSE right

\* str::is_char_boundary
IsCharBoundary(bytes, i) ==
  \/ i = 0
  \/ i = Len(bytes)
  \/ /\ i < Len(bytes)
     /\ (At(bytes, i) < 128 \/ At(bytes, i) >= 192)

\* self.source.get(s..e).map_or(false, |x| x.contains(','))
has_comma_in_span(bytes, s, e) ==
  /\ s <= e
  /\ e <= Len(bytes)
  /\ IsCharBoundary(bytes, s)
  /\ IsCharBoundary(bytes, e)
  /\ \E k \in s..(e - 1) : At(bytes, k) = Comma

\* the test of lines 63 and 76: both scans stopped inside the text, on
\* '(' and on ')'
IsParenPair(bytes, l, r) ==
  /\ l >= 0
  /\ r < Len(bytes)
  /\ At(bytes, l) = LParen
  /\ At(bytes, r) = RParen

\* lines 64-66 without the comma test
CompOrAssignNoCommaTest(bytes, left, right) == TRUE

\* lines 64-66 without the negation
CompOrAssignNotNegated(bytes, left, right) ==
  has_comma_in_span(bytes, left, right + 1)

\* lines 64-66
CompOrAssignBranch(bytes, left, right) ==
  ~has_comma_in_span(bytes, left, right + 1)

\* lines 67-79 without the test of the outer pair
CallArgNoOuterTest(bytes, left, right) ==
  ~has_comma_in_span(bytes, left, right + 1)

\* lines 67-79
CallArgBranch(bytes, left, right) ==
  LET o_left == ScanLeft(bytes, left - 1)
      o_right == ScanRight(bytes, right + 1)
  IN  /\ IsParenPair(bytes, o_left, o_right)
      /\ ~has_comma_in_span(bytes, left, right + 1)

\* is_violation without the test of is_call_arg on line 67
is_violation_any_arg(bytes, s, e, call_arg, comp_or_assign) ==
  IF s - 1 >= Len(bytes)
  THEN [panic |-> TRUE, value |-> FALSE]
  ELSE LET left == ScanLeft(bytes, s - 1)
           right == ScanRight(bytes, e)
       IN  [panic |-> FALSE,
            value |->
              IF left >= 0 /\ right < Len(bytes)
                 /\ At(bytes, left) = LParen /\ At(bytes, right) = RParen
              THEN IF comp_or_assign
                   THEN ~has_comma_in_span(bytes, left, right + 1)
                   ELSE LET o_left == ScanLeft(bytes, left - 1)
                            o_right == ScanRight(bytes, right + 1)
                        IN  /\ o_left >= 0 /\ o_right < Len(bytes)
                            /\ At(bytes, o_left) = LParen
                            /\ At(bytes, o_right) = RParen
                            /\ ~has_comma_in_span(bytes, left, right + 1)
              ELSE FALSE]

\* bytes[left as usize] with start - 1 past the last byte: index out of
\* bounds, a panic in every build
is_violation(bytes, s, e, call_arg, comp_or_assign) ==
  IF s - 1 >= Len(bytes)
  THEN [panic |-> TRUE, value |-> FALSE]
  ELSE LET left == ScanLeft(bytes, s - 1)
           right == ScanRight(bytes, e)
       IN  [panic |-> FALSE,
            value |->
              IF IsParenPair(bytes, left, right)
              THEN IF comp_or_assign
                   THEN CompOrAssignBranch(bytes, left, right)
                   ELSE IF call_arg
                        THEN CallArgBranch(bytes, left, right)
                        ELSE FALSE
              ELSE FALSE]

(* ---------------------------- the state machine ----------------------- *)

\* characters of the texts scanned: ( ) , space and U+00E0, a letter that
\* UTF-8 encodes as the bytes 0xC3 0xA0
ScanAlphabet == {LParen, RParen, Comma, 32, 224}

\* a Scanner constructed from a text; no call in progress
InitWith(texts) ==
  /\ source \in texts
  /\ line_offsets = new(source)
  /\ op = "idle"
  /\ outcome = "none"
  /\ lineno = 0 /\ col = 0 /\ offset = 0
  /\ start = 0 /\ end = 0
  /\ is_call_arg = FALSE /\ is_comp_or_assign = FALSE
  /\ verdict = FALSE
  /\ pc = "idle"
  /\ ids = <<>> /\ flagged = <<>> /\ violations = <<>>

\* offsets a caller can pass: every offset of the text and one past it
\* (start = Len + 1 is the first whose left scan begins outside the text)
Offsets == 0..(Len(source) + 1)

CallIsViolation ==
  /\ op = "idle"
  /\ \E s \in Offsets, e \in Offsets, ca \in BOOLEAN, co \in BOOLEAN :
       \* a node's span: its end is not before its start
       /\ s <= e
       /\ LET r == is_violation(source, s, e, ca, co)
          IN  /\ start' = s /\ end' = e
              /\ is_call_arg' = ca /\ is_comp_or_assign' = co
              /\ outcome' = IF r.panic THEN "panic" ELSE "ok"
              /\ verdict' = r.value
  /\ op' = "is_violation"
  /\ UNCHANGED <<source, line_offsets, lineno, col, offset,
                 pc, ids, flagged, violations>>

\* the call is over; the Scanner is as it was
Return ==
  /\ op # "idle"
  /\ pc \in {"idle", "done", "panic"}
  /\ op' = "idle"
  /\ outcome' = "none"
  /\ lineno' = 0 /\ col' = 0 /\ offset' = 0
  /\ start' = 0 /\ end' = 0
  /\ is_call_arg' = FALSE /\ is_comp_or_assign' = FALSE
  /\ verdict' = FALSE
  /\ pc' = "idle"
  /\ ids' = <<>> /\ flagged' = <<>> /\ violations' = <<>>
  /\ UNCHANGED <<source, line_offsets>>

InitScan == InitWith(Texts(ScanAlphabet, MaxLen))

NextScan == CallIsViolation \/ Return

SpecScan == InitScan /\ [][NextScan]_vars

(* ---------------------------- get_offset, called ---------------------- *)

\* characters of the texts indexed: x, newline, carriage return, U+00E0
IndexAlphabet == {120, LF, 13, 224}

\* line numbers a caller can pass: 0, every index of the table, one past
LineNumbers == 0..(Len(line_offsets) + 1)

\* columns a caller can pass: every offset of the text and one past it
Columns == 0..(Len(source) + 1)

CallGetOffset(overflow_checks) ==
  /\ op = "idle"
  /\ \E ln \in LineNumbers, c \in Columns :
       LET r == get_offset(line_offsets, ln, c, overflow_checks)
       IN  /\ lineno' = ln /\ col' = c
           /\ outcome' = IF r.panic THEN "panic" ELSE "ok"
           /\ offset' = IF r.panic THEN 0 ELSE r.value
  /\ op' = "get_offset"
  /\ UNCHANGED <<source, line_offsets, start, end, is_call_arg,
                 is_comp_or_assign, verdict, pc, ids, flagged, violations>>

InitIndex == InitWith(Texts(IndexAlphabet, MaxIndexLen))

NextIndex == (\E b \in BOOLEAN : CallGetOffset(b)) \/ Return

SpecIndex == InitIndex /\ [][NextIndex]_vars

(* ---------------------------- check_nodes ----------------------------- *)

\* characters of the texts of a batch
BatchAlphabet == {LParen, RParen, LF}

\* identifiers are the caller's: any two distinct values do
NodeIds == {1, 2}

\* violations.insert(0, node.id) in place of push
PushFront(v, id) == <<id>> \o v

\* violations.push(node.id)
PushViolation(v, id) == Append(v, id)

\* let mut violations = Vec::new(); the for loop is about to start
CallCheckNodes ==
  /\ op = "idle"
  /\ op' = "check_nodes"
  /\ pc' = "loop"
  /\ outcome' = "running"
  /\ ids' = <<>> /\ flagged' = <<>> /\ violations' = <<>>
  /\ UNCHANGED <<source, line_offsets, lineno, col, offset, start, end,
                 is_call_arg, is_comp_or_assign, verdict>>

\* what get_offset makes of the (line, column) pairs a node can carry
NodeOffsets(overflow_checks) ==
  { get_offset(line_offsets, l, c, overflow_checks) :
      l \in LineNumbers, c \in Columns }

\* one iteration of the for loop, on the next node of the list: both
\* get_offset calls, is_violation and the push.  ids and flagged record
\* the nodes consumed so far and what is_violation said of each; start
\* and end keep the offsets of the node the call aborted on.
NodeStep(overflow_checks) ==
  /\ op = "check_nodes"
  /\ pc = "loop"
  /\ Len(ids) < MaxNodes
  /\ \E id \in NodeIds,
        s \in NodeOffsets(overflow_checks),
        e \in NodeOffsets(overflow_checks),
        ca \in BOOLEAN, co \in BOOLEAN :
       LET r == is_violation(source, s.value, e.value, ca, co)
       IN  IF s.panic \/ e.panic \/ r.panic
           THEN /\ pc' = "panic"
                /\ outcome' = "panic"
                /\ start' = s.value /\ end' = e.value
                /\ UNCHANGED <<ids, flagged, violations>>
           ELSE /\ pc' = "loop"
                /\ outcome' = "running"
                /\ UNCHANGED <<start, end>>
                /\ ids' = Append(ids, id)
                /\ flagged' = Append(flagged, r.value)
                /\ violations' = IF r.value
                                 THEN PushViolation(violations, id)
                                 ELSE violations
  /\ UNCHANGED <<source, line_offsets, op, lineno, col, offset,
                 is_call_arg, is_comp_or_assign, verdict>>

\* the list is exhausted: violations is returned
LoopEnd ==
  /\ op = "check_nodes"
  /\ pc = "loop"
  /\ pc' = "done"
  /\ outcome' = "ok"
  /\ UNCHANGED <<source, line_offsets, op, lineno, col, offset, start, end,
                 is_call_arg, is_comp_or_assign, verdict,
                 ids, flagged, violations>>

InitBatch == InitWith(Texts(BatchAlphabet, MaxBatchLen))

NextBatch ==
  CallCheckNodes \/ (\E b \in BOOLEAN : NodeStep(b)) \/ LoopEnd \/ Return

Spec == InitBatch /\ [][NextBatch]_vars

\* the same calls in a build without overflow checks
NextRelease == CallCheckNodes \/ NodeStep(FALSE) \/ LoopEnd \/ Return

SpecRelease == InitBatch /\ [][NextRelease]_vars

(* ---------------------------- what the claims speak of ---------------- *)

\* the whitespace bytes of the specification: tab, newline, carriage
\* return, space
AsciiWhitespace(b) == b \in {9, 10, 13, 32}

MaxOf(S) == CHOOSE x \in S : \A y \in S : y <= x
MinOf(S) == CHOOSE x \in S : \A y \in S : x <= y

\* index of the first non-whitespace byte left of offset s, -1 if there is
\* none or the scan begins outside the text
LeftNeighbour(bytes, s) ==
  IF s - 1 >= Len(bytes) THEN -1
  ELSE LET cands == { p \in 0..(s - 1) : ~AsciiWhitespace(At(bytes, p)) }
       IN  IF cands = {} THEN -1 ELSE MaxOf(cands)

\* index of the first non-whitespace byte at or after offset e, Len(bytes)
\* if there is none
RightNeighbour(bytes, e) ==
  LET cands == { p \in e..(Len(bytes) - 1) : ~AsciiWhitespace(At(bytes, p)) }
  IN  IF cands = {} THEN Len(bytes) ELSE MinOf(cands)

\* l and r are a '(' and a ')' of the text
Pair(bytes, l, r) ==
  /\ l \in 0..(Len(bytes) - 1)
  /\ r \in 0..(Len(bytes) - 1)
  /\ At(bytes, l) = LParen
  /\ At(bytes, r) = RParen

EncLeft == LeftNeighbour(source, start)
EncRight == RightNeighbour(source, end)

\* the node of the call sits in a parenthesis pair
Enclosed == Pair(source, EncLeft, EncRight)

\* that pair sits in a second one
OuterPair ==
  Pair(source, LeftNeighbour(source, EncLeft),
       RightNeighbour(source, EncRight + 1))

\* a comma between the two parentheses, both included
CommaInSpan == \E k \in EncLeft..EncRight : At(source, k) = Comma

IsViolationCalled == op = "is_violation"

\* the node of the call is not empty and begins with the letter U+00E0
NodeIsLetter ==
  /\ start < end
  /\ end <= Len(source)
  /\ At(source, start) = 195

(* ---------------------------- C1 -------------------------------------- *)

\* C1: check_nodes is total: whatever the text and the nodes (line 0, a
\* line past the table, columns past the end of the text), the call
\* returns a list and never aborts.
C1_CheckNodesNeverAborts == op = "check_nodes" => outcome # "panic"

(* ---------------------------- C2 -------------------------------------- *)

\* lines of a text: one per newline, and one more for an unterminated rest
NumLines(bytes) ==
  Cardinality({ k \in 0..(Len(bytes) - 1) : At(bytes, k) = LF })
    + (IF Len(bytes) > 0 /\ At(bytes, Len(bytes) - 1) # LF THEN 1 ELSE 0)

\* bytes before the first byte of a line: 0 for line 1, else one past the
\* newline that has line - 2 newlines before it
RefLineStart(bytes, line) ==
  IF line = 1 THEN 0
  ELSE CHOOSE p \in 1..Len(bytes) :
         /\ At(bytes, p - 1) = LF
         /\ Cardinality({ k \in 0..(p - 2) : At(bytes, k) = LF }) = line - 2

\* bytes of a line, its terminator included
LineLength(bytes, line) ==
  (IF line = NumLines(bytes) THEN Len(bytes)
   ELSE RefLineStart(bytes, line + 1)) - RefLineStart(bytes, line)

ValidPosition(bytes, line, column) ==
  /\ line \in 1..NumLines(bytes)
  /\ column <= LineLength(bytes, line)

TableIsLineStarts ==
  /\ line_offsets[1] = 0
  /\ Len(line_offsets) = NumLines(source) + 1
  /\ \A i \in 1..NumLines(source) :
       line_offsets[i] = RefLineStart(source, i)
  /\ line_offsets[Len(line_offsets)] = Len(source)
  /\ \A i \in 1..(Len(line_offsets) - 1) :
       line_offsets[i] <= line_offsets[i + 1]

\* C2: the table of new starts with 0, has one entry more than the text
\* has lines, entry i is the byte offset of the first byte of line i + 1,
\* entries never decrease; and get_offset of a valid (line, column) is the
\* number of bytes from the start of the text to that position.
C2_OffsetIsByteCount ==
  /\ TableIsLineStarts
  /\ (op = "get_offset" /\ ValidPosition(source, lineno, col))
       => /\ outcome = "ok"
          /\ offset = RefLineStart(source, lineno) + col

C2_Witness ==
  /\ op = "get_offset"
  /\ outcome = "ok"
  /\ ValidPosition(source, lineno, col)
  /\ lineno >= 2
  /\ col >= 1
  /\ At(source, 0) = 195
  /\ offset = RefLineStart(source, lineno) + col

(* ---------------------------- C3 -------------------------------------- *)

\* C3: for a line number outside the table (line 0, or a line greater than
\* the number of entries) get_offset does not fail and the line start
\* degrades to 0, so the result is 0 + col.
C3_OutOfRangeLineClampsToZero ==
  (op = "get_offset" /\ (lineno = 0 \/ lineno > Len(line_offsets)))
    => (outcome = "ok" /\ offset = col)

(* ---------------------------- C4 -------------------------------------- *)

\* C4: a node whose first non-whitespace byte to the left is not '(' or
\* whose first non-whitespace byte at or after its end is not ')' (a scan
\* that runs off the text included) is never flagged.
C4_NoParensNeverFlagged ==
  (IsViolationCalled /\ ~Enclosed) => ~verdict

(* ---------------------------- C5 -------------------------------------- *)

\* C5: a node enclosed in a parenthesis pair with a comma between the
\* opening and the closing parenthesis is never flagged, whatever its two
\* classifiers and whatever surrounds the pair.
C5_TuplePreserved ==
  (IsViolationCalled /\ Enclosed /\ CommaInSpan) => ~verdict

C5_Witness ==
  /\ IsViolationCalled
  /\ outcome = "ok"
  /\ Enclosed
  /\ CommaInSpan
  /\ NodeIsLetter
  /\ is_comp_or_assign
  /\ ~verdict

(* ---------------------------- C6 -------------------------------------- *)

\* C6: a node with is_comp_or_assign, enclosed in a parenthesis pair with
\* no comma between the parentheses, is flagged, whatever is_call_arg and
\* whether or not there is an outer pair.
C6_SingleElementFlagged ==
  (IsViolationCalled /\ is_comp_or_assign /\ Enclosed /\ ~CommaInSpan)
    => (outcome = "ok" /\ verdict)

\* with whitespace between the parenthesis and the node
C6_Witness ==
  /\ IsViolationCalled
  /\ is_comp_or_assign
  /\ Enclosed
  /\ ~CommaInSpan
  /\ NodeIsLetter
  /\ EncLeft < start - 1
  /\ ~OuterPair
  /\ verdict

(* ---------------------------- C7 -------------------------------------- *)

C8_NoClassifierNeverFlagged ==
  (IsViolationCalled /\ ~is_call_arg /\ ~is_comp_or_assign) => ~verdict

C8_Witness ==
  /\ IsViolationCalled
  /\ outcome = "ok"
  /\ ~is_call_arg
  /\ ~is_comp_or_assign
  /\ Enclosed
  /\ OuterPair
  /\ ~CommaInSpan
  /\ NodeIsLetter
  /\ ~verdict

(* ---------------------------- C9 -------------------------------------- *)

\* the identifiers of the flagged nodes, in the order of the list
RECURSIVE FlaggedIds(_, _)
FlaggedIds(i, f) ==
  IF i = <<>> THEN <<>>
  ELSE (IF Head(f) THEN <<Head(i)>> ELSE <<>>)
         \o FlaggedIds(Tail(i), Tail(f))

\* C9: the sequence check_nodes returns is the identifiers of the flagged
\* nodes in their order in the list: nothing reordered, added or dropped.
C9_OrderPreserved ==
  (op = "check_nodes" /\ pc = "done")
    => violations = FlaggedIds(ids, flagged)

\* two flagged nodes, the larger identifier first, an unflagged one between
C9_Witness ==
  /\ op = "check_nodes"
  /\ pc = "done"
  /\ ids = <<2, 2, 1>>
  /\ flagged = <<TRUE, FALSE, TRUE>>
  /\ violations = <<2, 1>>

(* ---------------------------- C10 ------------------------------------- *)

SkipsOnlyAscii(bytes, lo, hi) ==
  \A k \in lo..hi : AsciiWhitespace(At(bytes, k))

StopsOnOther(bytes, i) ==
  i \in 0..(Len(bytes) - 1) => ~AsciiWhitespace(At(bytes, i))

\* C10: the bytes the four scans skip are tabs, newlines, carriage returns
\* and spaces and nothing else; any other byte, a byte >= 0x80 of a
\* multi-byte character in particular, stops the scan.
C10_ScansSkipAsciiWhitespaceOnly ==
  (IsViolationCalled /\ outcome = "ok")
    => LET left == ScanLeft(source, start - 1)
           right == ScanRight(source, end)
           o_left == ScanLeft(source, left - 1)
           o_right == ScanRight(source, right + 1)
       IN  /\ SkipsOnlyAscii(source, left + 1, start - 1)
           /\ StopsOnOther(source, left)
           /\ SkipsOnlyAscii(source, end, right - 1)
           /\ StopsOnOther(source, right)
           /\ (IsParenPair(source, left, right)
                 /\ is_call_arg /\ ~is_comp_or_assign)
                => /\ SkipsOnlyAscii(source, o_left + 1, left - 1)
                   /\ StopsOnOther(source, o_left)
                   /\ SkipsOnlyAscii(source, right + 1, o_right - 1)
                   /\ StopsOnOther(source, o_right)

====
